---------------------------- MODULE Spec2Model ----------------------------
(***************************************************************************)
(* Model of the Blender MCP bridge: the command server embedded in the    *)
(* add-on (blender-mcp-addon/server.py) and the persistent connection of  *)
(* the MCP process (src/blender_mcp/connection.py), joined by TCP         *)
(* connections whose byte streams are modelled explicitly.                 *)
(*                                                                         *)
(* Messages (exception texts) are sequences of string pieces, so that an  *)
(* f-string is a concatenation.  A JSON document is encoded as DocLen     *)
(* bytes; a buffer decodes only when it holds exactly the bytes of one    *)
(* document, as json.loads accepts exactly one document.                   *)
(***************************************************************************)
EXTENDS Integers, Sequences, FiniteSets, TLC

\* ------------------------------------------------------------- bounds
DocLen == 2
MaxConn == 2
MaxStarts == 1
MaxFrames == 2
MaxPipelined == 3
MaxCalls == 2
MaxPeerWrites == 2
MaxOps == 3
MaxGets == 3

ConnIds == 1..MaxConn
LSockIds == 1..MaxOps
NoSock == 0

\* ------------------------------------------------------------- values
EmptyParams == [none |-> TRUE]

Command(t) == [type |-> t, params |-> EmptyParams]

\* A JSON document that is valid but is no object (an array).
JsonArray == [array |-> TRUE]

BaseTypes == {"get_scene_info", "get_object_info", "get_viewport_screenshot",
              "execute_code", "get_polyhaven_status", "get_hyper3d_status",
              "get_sketchfab_status"}
PolyhavenTypes == {"get_polyhaven_categories", "search_polyhaven_assets",
                   "download_polyhaven_asset", "set_texture"}
Hyper3dTypes == {"create_rodin_job", "poll_rodin_job_status", "import_generated_asset"}
SketchfabTypes == {"search_sketchfab_models", "download_sketchfab_model"}

Success(r) == [status |-> "success", result |-> r]
Error(m) == [status |-> "error", message |-> m]

\* dict.get(key, default) on a parsed JSON object.
Get(obj, key, default) == IF key \in DOMAIN obj THEN obj[key] ELSE default

IsObject(v) == "array" \notin DOMAIN v

\* ------------------------------------------------------------- codec
\* A byte is ASCII ("ascii"), the first ("lead") or the second ("cont") byte
\* of a two-byte UTF-8 character, or a byte no UTF-8 text holds ("invalid").
\* An ASCII byte that belongs to no JSON document.
GarbageByte == [doc |-> [garbage |-> TRUE], k |-> 0, u |-> "ascii"]

\* A byte of JSON whitespace, such as the newline that ends a line.
WhitespaceByte == [doc |-> [space |-> TRUE], k |-> 0, u |-> "ascii"]

\* A byte such as 0xff.
InvalidByte == [doc |-> [garbage |-> TRUE], k |-> 0, u |-> "invalid"]

\* bytes.decode("utf-8") succeeds: every character of the buffer is whole.
Utf8Valid(buf) ==
    \A i \in 1..Len(buf) :
        /\ buf[i].u # "invalid"
        /\ buf[i].u = "lead" => i < Len(buf) /\ buf[i + 1].u = "cont"
        /\ buf[i].u = "cont" => i > 1 /\ buf[i - 1].u = "lead"

\* str(exc) of the UnicodeDecodeError bytes.decode raises.
UnicodeErrorStr == <<"'utf-8' codec can't decode byte">>

\* The params of create_rodin_job as generate_hyper3d_model_via_images builds
\* them from image paths: a list of (suffix, base64) tuples.
ImageParams == [images |-> <<[seq |-> "tuple", items |-> <<".png", "b64">>]>>]

\* The JSON value json.dumps writes for a Python value: a tuple is written
\* as an array, which json.loads reads back as a list.
JsonOf(v) ==
    IF "params" \in DOMAIN v /\ "images" \in DOMAIN v.params
    THEN [v EXCEPT !.params.images =
             [i \in DOMAIN @ |-> [@[i] EXCEPT !.seq = "list"]]]
    ELSE v

\* json.dumps raises TypeError for a value it cannot serialize.
Serializable(v) ==
    ~("result" \in DOMAIN v /\ "unserializable" \in DOMAIN v.result)

\* json.dumps(v).encode("utf-8"): the DocLen bytes of the document; with
\* ensure_ascii they are all ASCII.
Encode(v) == [i \in 1..DocLen |-> [doc |-> JsonOf(v), k |-> i, u |-> "ascii"]]

\* The bytes of a client that writes its JSON text as raw UTF-8: a document
\* with a non-ASCII character in a string holds a two-byte character.
EncodeRaw(v) ==
    [i \in 1..DocLen |->
        [doc |-> JsonOf(v), k |-> i,
         u |-> IF "params" \in DOMAIN v /\ "wide" \in DOMAIN v.params
               THEN IF i = DocLen - 1 THEN "lead"
                    ELSE IF i = DocLen THEN "cont" ELSE "ascii"
               ELSE "ascii"]]

\* The text json.loads parses a value from: JSON whitespace before and after
\* the value is skipped.
Strip(buf) ==
    IF \A k \in DOMAIN buf : buf[k] # WhitespaceByte
    THEN buf
    ELSE LET text == {k \in DOMAIN buf : buf[k] # WhitespaceByte}
         IN IF text = {}
            THEN <<>>
            ELSE SubSeq(buf, CHOOSE k \in text : \A j \in text : k <= j,
                             CHOOSE k \in text : \A j \in text : j <= k)

CanDecodePrefix(buf) ==
    /\ Len(buf) >= DocLen
    /\ \A i \in 1..DocLen : buf[i].k = i /\ buf[i].doc = buf[1].doc

\* json.loads succeeds only on exactly one whole document, whitespace apart.
CanDecode(buf) ==
    /\ Len(Strip(buf)) = DocLen
    /\ \A i \in 1..DocLen : Strip(buf)[i].k = i /\ Strip(buf)[i].doc = Strip(buf)[1].doc

Decode(buf) == Strip(buf)[1].doc

Take(s, n) == SubSeq(s, 1, n)
Drop(s, n) == SubSeq(s, n + 1, Len(s))

\* ------------------------------------------------------------- dispatcher
\* str(exc) of the exceptions a handler may raise.
ExcStr(e) == <<e>>

AttributeErrorStr == <<"'list' object has no attribute 'get'">>
NotSerializableStr == <<"Object of type set is not JSON serializable">>

get_polyhaven_status(scene) ==
    IF scene.use_polyhaven
    THEN [enabled |-> TRUE, message |-> "enabled"]
    ELSE [enabled |-> FALSE, message |-> "disabled"]

HandlersAtStart(scene) == BaseTypes

\* The handler table built at each dispatch.
Handlers(scene) ==
    BaseTypes
      \cup (IF scene.use_polyhaven THEN PolyhavenTypes ELSE {})
      \cup (IF scene.use_hyper3d THEN Hyper3dTypes ELSE {})
      \cup (IF scene.use_sketchfab THEN SketchfabTypes ELSE {})

\* What the handler of a known type does when called: it returns a value or
\* raises.  out = [raised |-> BOOLEAN, value |-> result or exception].
HandlerValues == {[kind |-> "value"], [unserializable |-> TRUE]}
HandlerExceptions == {"boom"}
HandlerOutcomes ==
    [raised : {FALSE}, value : HandlerValues]
      \cup [raised : {TRUE}, value : HandlerExceptions]

ExecuteInternalSwallow(command, scene, out) ==
    IF command.type = "get_polyhaven_status"
    THEN Success(get_polyhaven_status(scene))
    ELSE IF command.type \notin Handlers(scene)
    THEN Error(<<"Unknown command type: ", command.type>>)
    ELSE IF out.raised THEN Success([kind |-> "value"])
    ELSE Success(out.value)

ExecuteInternalDefault(command, scene, out) ==
    IF command.type = "get_polyhaven_status"
    THEN Success(get_polyhaven_status(scene))
    ELSE IF out.raised THEN Error(ExcStr(out.value))
    ELSE Success(out.value)

\* BlenderMCPServer._execute_command_internal, for a command that is an object.
ExecuteInternal(command, scene, out) ==
    IF command.type = "get_polyhaven_status"
    THEN Success(get_polyhaven_status(scene))
    ELSE IF command.type \notin Handlers(scene)
    THEN Error(<<"Unknown command type: ", command.type>>)
    ELSE IF out.raised THEN Error(ExcStr(out.value))
    ELSE Success(out.value)

\* Whether dispatching the command calls a handler that may raise.
CallsHandler(command, scene) ==
    /\ IsObject(command)
    /\ command.type # "get_polyhaven_status"
    /\ command.type \in Handlers(scene)

\* BlenderMCPServer.execute_command: command.get on a non-object raises
\* AttributeError, caught here.
execute_command(command, scene, out) ==
    IF IsObject(command)
    THEN ExecuteInternal(command, scene, out)
    ELSE Error(AttributeErrorStr)


\* ------------------------------------------------------------- state
VARIABLES
    \* BlenderMCPServer (add-on)
    running,        \* self.running
    socket,         \* self.socket: NoSock or a listening socket
    server_thread,  \* self.server_thread: NoSock or an accept thread
    lsock,          \* each listening socket: "unused", "open", "closed"
    apc,            \* each accept thread's position in _server_loop
    asock,          \* the socket an accept thread is blocked on in accept()
    hpc,            \* each client handler thread's position in _handle_client
    buffer,         \* _handle_client's local buffer, per handler
    command,        \* _handle_client's local command (the closure's cell)
    timers,         \* bpy.app.timers: the deferred units, in registration order
    executing,      \* the execute_command calls in progress, with their thread
    scene,          \* the properties of bpy.context.scene
    blendermcp_server,  \* bpy.types.blendermcp_server: the instance, if any
    \* the TCP connections
    net,
    peerListening,  \* a peer other than the add-on listens on the port
    \* BlenderConnection (MCP process)
    sock,           \* self.sock: NoSock or a connection
    cpc,            \* position in send_command
    ccmd,           \* the command of the call in progress
    chunks,         \* receive_full_response's chunks, joined
    outcome,        \* how the last send_command call ended
    \* the MCP process around it
    gconn,          \* _blender_connection: NoInstance or an instance
    gpc,            \* position in get_blender_connection
    gcall,          \* the get_blender_connection call in progress
    polyhaven_enabled,  \* _polyhaven_enabled
    lpc,            \* position in server_lifespan
    \* history
    calls,          \* send_command calls so far, and this call's attempts
    dlog,           \* the dispatcher calls made directly on the main loop
    life,           \* the start() and stop() calls so far, with the state before
    glog,           \* the get_blender_connection and shutdown calls so far
    tool,           \* the last call of a tool, and how it ended
    trip,           \* the last command and envelope put through the codec
    raw,            \* what each raw client has sent and received
    decoded,        \* per connection, the commands decoded, in order
    dispatched,     \* per connection, the commands dispatched, in order
    results         \* the finished deferred units, in order

serverVars == <<running, socket, server_thread, lsock, apc, asock, hpc, buffer,
                command, timers, executing, scene, blendermcp_server>>
singletonVars == <<gconn, gpc, gcall, polyhaven_enabled, lpc>>
clientVars == <<sock, cpc, ccmd, chunks, outcome, calls, singletonVars>>
histVars == <<raw, decoded, dispatched, results, dlog, life, glog, tool, trip>>
vars == <<serverVars, net, peerListening, clientVars, histVars>>

NoCommand == [none |-> TRUE]
NoOutcome == [kind |-> "none"]
NoInstance == 0
NoCall == [none |-> TRUE]

\* No instance in bpy.types.  running, socket and server_thread are the
\* fields of the instance in bpy.types or, when there is none, of the one
\* the next Start will make; first is the first listening socket that
\* instance makes.
NoServer == [present |-> FALSE, first |-> 1]

\* A connection: st is "unused", "pending" (queued on listening socket lq),
\* "accepted" (by the add-on) or "peer" (held by another peer); owner is the
\* program at the client end ("raw" or "mcp"); cend and send are the two ends
\* ("none", "open", "closed"); pw counts the writes of the other peer.
FreshConn == [st |-> "unused", owner |-> "none", lq |-> NoSock, cend |-> "none",
              send |-> "none", c2s |-> <<>>, s2c |-> <<>>, rst |-> FALSE, pw |-> 0]

Init ==
    /\ running = FALSE
    /\ socket = NoSock
    /\ server_thread = NoSock
    /\ lsock = [s \in LSockIds |-> "unused"]
    /\ apc = [s \in LSockIds |-> "none"]
    /\ asock = [s \in LSockIds |-> NoSock]
    /\ hpc = [i \in ConnIds |-> "none"]
    /\ buffer = [i \in ConnIds |-> <<>>]
    /\ command = [i \in ConnIds |-> NoCommand]
    /\ timers = <<>>
    /\ executing = {}
    /\ scene = [use_polyhaven |-> FALSE, use_hyper3d |-> FALSE, use_sketchfab |-> FALSE,
                blendermcp_server_running |-> FALSE]
    /\ blendermcp_server = NoServer
    /\ net = [i \in ConnIds |-> FreshConn]
    /\ peerListening = FALSE
    /\ sock = NoSock
    /\ cpc = "idle"
    /\ ccmd = NoCommand
    /\ chunks = <<>>
    /\ outcome = NoOutcome
    /\ calls = [n |-> 0, connects |-> 0, writes |-> 0, reused |-> FALSE,
                conn |-> NoSock, prev |-> NoOutcome]
    /\ raw = [i \in ConnIds |-> [sent |-> <<>>, received |-> 0]]
    /\ decoded = [i \in ConnIds |-> <<>>]
    /\ dispatched = [i \in ConnIds |-> <<>>]
    /\ results = <<>>
    /\ dlog = <<>>
    /\ life = <<>>
    /\ glog = <<>>
    /\ tool = NoCall
    /\ trip = [command |-> NoCall, envelope |-> NoCall]
    /\ gconn = NoInstance
    /\ gpc = "idle"
    /\ gcall = NoCall
    /\ polyhaven_enabled = FALSE
    /\ lpc = "init"

\* ------------------------------------------------------------- network
FreeConns == {i \in ConnIds : net[i].st = "unused"}
NewConn == CHOOSE i \in FreeConns : \A j \in FreeConns : i <= j

OpenLSocks == {s \in LSockIds : lsock[s] = "open"}

\* sendall on one end of connection i fails when that end was closed or the
\* connection was reset; otherwise the bytes are queued, and writing to a
\* connection whose other end is closed makes the peer answer with a reset.
CanSend(i, myEnd) == net[i][myEnd] = "open" /\ ~net[i].rst

SendS2C(i, bytes) ==
    [net EXCEPT ![i].s2c = IF net[i].cend = "closed" THEN @ ELSE @ \o bytes,
                ![i].rst = (net[i].cend = "closed")]

SendC2S(i, bytes) ==
    [net EXCEPT ![i].c2s = IF net[i].send = "closed" THEN @ ELSE @ \o bytes,
                ![i].rst = (net[i].send = "closed")]

\* ------------------------------------------------------------- server
\* The threads that may call into the host: Blender's main thread, which
\* runs the timers, and the handler thread of each client.
MainThread == <<"main">>
HandlerThread(i) == <<"handler", i>>

MainBusy == \E e \in executing : e.thread = MainThread

CloseListeningAndClients(s) ==
    [i \in ConnIds |->
        IF net[i].st = "pending" /\ net[i].lq = s
        THEN [net[i] EXCEPT !.rst = TRUE]
        ELSE IF net[i].st = "accepted"
        THEN [net[i] EXCEPT !.send = "closed"]
        ELSE net[i]]

\* close() of a listening socket: the connections still queued on it are reset.
CloseListening(s) ==
    [i \in ConnIds |->
        IF net[i].st = "pending" /\ net[i].lq = s
        THEN [net[i] EXCEPT !.rst = TRUE]
        ELSE net[i]]

StopEffectKeepsSocket ==
    /\ running' = FALSE
    /\ socket' = socket
    /\ server_thread' = NoSock

\* BlenderMCPServer.stop, from the state in which running was just assigned.
StopEffect ==
    /\ running' = FALSE
    /\ socket' = NoSock
    /\ server_thread' = NoSock

NeverRunning == FALSE

\* start() line 35: the test that makes a second start() return at once.
AlreadyRunning == running

\* Listening socket s was made by an instance the Stop operator has deleted.
\* The accept thread of s and the handlers of its connections run on that
\* instance, whose fields stay as stop() left them.
Deleted(s) == s < blendermcp_server.first

\* self.running and self.socket as the threads of listening socket s read them.
RunningOf(s) == ~Deleted(s) /\ running
SocketOf(s) == IF Deleted(s) THEN NoSock ELSE socket

\* The listening sockets start() has created so far.
Created == {s \in LSockIds : lsock[s] # "unused"}

StartFailedNoStop(s) ==
    /\ running' = TRUE
    /\ socket' = s
    /\ lsock' = [lsock EXCEPT ![s] = "open"]
    /\ UNCHANGED <<server_thread, apc>>

\* The except branch of start(): stop() closes the socket that was created;
\* no accept thread runs.
StartFailed(s) ==
    /\ StopEffect
    /\ lsock' = [lsock EXCEPT ![s] = "closed"]
    /\ UNCHANGED apc

\* BlenderMCPServer.start.  ok: whether creating, binding and listening on
\* the socket and starting the thread succeed.
start(ok) ==
    IF AlreadyRunning
    THEN UNCHANGED <<running, socket, server_thread, lsock, apc>>
    ELSE \E s \in LSockIds :
           /\ lsock[s] = "unused"
           /\ \A r \in LSockIds : r < s => lsock[r] # "unused"
           /\ IF ok
              THEN /\ running' = TRUE
                   /\ socket' = s
                   /\ server_thread' = s
                   /\ lsock' = [lsock EXCEPT ![s] = "open"]
                   /\ apc' = [apc EXCEPT ![s] = "init"]
              ELSE StartFailed(s)

JoinWaitsForExit(t) == apc[t] \in {"none", "done"}

\* join(timeout=1.0) returns when the thread has exited or the second is over.
JoinReturns(t) == TRUE

\* BlenderMCPServer.stop.  The bounded join may return before the accept
\* thread has exited.
stop ==
    /\ server_thread # NoSock => JoinReturns(server_thread)
    /\ StopEffect
    /\ lsock' = IF socket # NoSock THEN [lsock EXCEPT ![socket] = "closed"] ELSE lsock
    /\ net' = IF socket # NoSock THEN CloseListening(socket) ELSE net

\* scene.blendermcp_server_running after the Start operator (ui.py line 65).
FlagAfterStart == TRUE

\* The Start operator of the panel, on the main thread: it makes the instance
\* if bpy.types holds none, calls start() on it and sets the scene's flag.
Start(ok) ==
    /\ ~MainBusy
    /\ running \/ Cardinality(Created) < MaxStarts
    /\ start(ok)
    /\ blendermcp_server' = [blendermcp_server EXCEPT !.present = TRUE]
    /\ scene' = [scene EXCEPT !.blendermcp_server_running = FlagAfterStart]
    /\ UNCHANGED <<asock, hpc, buffer, command, timers, executing, net,
                   peerListening, clientVars, histVars>>

\* The Stop operator of the panel, on the main thread: it calls stop() on the
\* instance bpy.types holds and deletes it, and clears the scene's flag.
Stop ==
    /\ ~MainBusy
    /\ IF blendermcp_server.present
       THEN /\ stop
            /\ blendermcp_server' = [present |-> FALSE, first |-> Cardinality(Created) + 1]
       ELSE UNCHANGED <<running, socket, server_thread, lsock, net, blendermcp_server>>
    /\ scene' = [scene EXCEPT !.blendermcp_server_running = FALSE]
    /\ UNCHANGED <<apc, asock, hpc, buffer, command, timers, executing,
                   peerListening, clientVars, histVars>>

\* _server_loop before its loop: the assert and settimeout on self.socket.
AcceptInit(t) ==
    /\ apc[t] = "init"
    /\ apc' = [apc EXCEPT ![t] = IF SocketOf(t) = NoSock THEN "done" ELSE "loop"]
    /\ UNCHANGED <<running, socket, server_thread, lsock, asock, hpc, buffer,
                   command, timers, executing, scene, blendermcp_server, net, peerListening,
                   clientVars, histVars>>

AcceptLoopIgnoresRunning(t) ==
    /\ apc[t] = "loop"
    /\ IF SocketOf(t) = NoSock
       THEN UNCHANGED <<apc, asock>>
       ELSE apc' = [apc EXCEPT ![t] = "accept"] /\ asock' = [asock EXCEPT ![t] = SocketOf(t)]
    /\ UNCHANGED <<running, socket, server_thread, lsock, hpc, buffer,
                   command, timers, executing, scene, blendermcp_server, net, peerListening,
                   clientVars, histVars>>

\* The loop test, and the evaluation of self.socket for accept().
AcceptLoop(t) ==
    /\ apc[t] = "loop"
    /\ IF ~RunningOf(t)
       THEN apc' = [apc EXCEPT ![t] = "done"] /\ UNCHANGED asock
       ELSE IF SocketOf(t) = NoSock
       THEN UNCHANGED <<apc, asock>>
       ELSE apc' = [apc EXCEPT ![t] = "accept"] /\ asock' = [asock EXCEPT ![t] = SocketOf(t)]
    /\ UNCHANGED <<running, socket, server_thread, lsock, hpc, buffer,
                   command, timers, executing, scene, blendermcp_server, net, peerListening,
                   clientVars, histVars>>

Pending(s) == {i \in ConnIds : net[i].st = "pending" /\ net[i].lq = s /\ ~net[i].rst}

\* settimeout(1.0) on the listening socket: accept() returns within a second
\* whether or not a client is waiting.
AcceptUnblocks(t) == TRUE

\* accept() returns: a client (whose handler thread is started), a timeout,
\* or an error on a closed socket.
AcceptReturn(t) ==
    /\ apc[t] = "accept"
    /\ AcceptUnblocks(t)
    /\ apc' = [apc EXCEPT ![t] = "loop"]
    /\ asock' = [asock EXCEPT ![t] = NoSock]
    /\ IF lsock[asock[t]] = "open" /\ Pending(asock[t]) # {}
       THEN \E i \in Pending(asock[t]) :
              /\ net' = [net EXCEPT ![i].st = "accepted", ![i].send = "open"]
              /\ hpc' = [hpc EXCEPT ![i] = "loop"]
       ELSE UNCHANGED <<net, hpc>>
    /\ UNCHANGED <<running, socket, server_thread, lsock, buffer,
                   command, timers, executing, scene, blendermcp_server, peerListening,
                   clientVars, histVars>>

\* bpy.app.timers.register(execute_wrapper) as a handler thread hands over to
\* the main loop.
RegisterInline(i, cmd) ==
    [timers |-> timers,
     executing |-> executing \cup {[thread |-> HandlerThread(i), h |-> i, cmd |-> cmd, decoded |-> cmd]}]

\* bpy.app.timers.register(execute_wrapper, first_interval=0.0): the unit
\* closes over handler i's variables; decoded records the command decoded
\* when it was registered.
Register(i, cmd) ==
    [timers |-> Append(timers, [h |-> i, decoded |-> cmd]),
     executing |-> executing]

\* _handle_client's loop test; when the server no longer runs, the finally
\* block closes the client socket.
HandlerLoop(i) ==
    /\ hpc[i] = "loop"
    /\ IF RunningOf(net[i].lq)
       THEN hpc' = [hpc EXCEPT ![i] = "recv"] /\ UNCHANGED net
       ELSE /\ hpc' = [hpc EXCEPT ![i] = "done"]
            /\ net' = [net EXCEPT ![i].send = "closed"]
    /\ UNCHANGED <<running, socket, server_thread, lsock, apc, asock, buffer,
                   command, timers, executing, scene, blendermcp_server, peerListening,
                   clientVars, histVars>>

\* The buffer and the handler after json.loads(buffer.decode("utf-8")) of
\* lines 118-119: a whole document empties the buffer; json.JSONDecodeError is
\* passed over (141-142) and the bytes kept; the UnicodeDecodeError of decode
\* is caught by except Exception (143-145), which breaks out of the loop, and
\* the finally clause closes the client socket.
AfterDecode(buf) ==
    IF ~Utf8Valid(buf)
    THEN [buffer |-> buf, hpc |-> "done"]
    ELSE IF CanDecode(buf)
    THEN [buffer |-> <<>>, hpc |-> "loop"]
    ELSE [buffer |-> buf, hpc |-> "loop"]

\* client.recv returns n bytes: they join the buffer, which is decoded.
HandlerRecvData(i, n) ==
    /\ hpc[i] = "recv"
    /\ ~net[i].rst
    /\ n \in 1..Len(net[i].c2s)
    /\ LET buf == buffer[i] \o Take(net[i].c2s, n)
       IN /\ buffer' = [buffer EXCEPT ![i] = AfterDecode(buf).buffer]
          /\ hpc' = [hpc EXCEPT ![i] = AfterDecode(buf).hpc]
          /\ net' = [net EXCEPT ![i].c2s = Drop(@, n),
                                ![i].send = IF AfterDecode(buf).hpc = "done"
                                            THEN "closed" ELSE @]
          /\ IF Utf8Valid(buf) /\ CanDecode(buf)
             THEN /\ command' = [command EXCEPT ![i] = Decode(buf)]
                  /\ timers' = Register(i, Decode(buf)).timers
                  /\ executing' = Register(i, Decode(buf)).executing
                  /\ decoded' = [decoded EXCEPT ![i] = Append(@, Decode(buf))]
             ELSE UNCHANGED <<command, timers, executing, decoded>>
    /\ UNCHANGED <<running, socket, server_thread, lsock, apc, asock,
                   scene, blendermcp_server, peerListening, clientVars, raw, dispatched, results,
                   dlog, life, glog, tool, trip>>

HandlerRecvEndLeaves(i) ==
    /\ hpc[i] = "recv"
    /\ \/ net[i].rst
       \/ net[i].c2s = <<>> /\ net[i].cend = "closed"
    /\ hpc' = [hpc EXCEPT ![i] = "done"]
    /\ UNCHANGED <<running, socket, server_thread, lsock, apc, asock, buffer,
                   command, timers, executing, scene, blendermcp_server, net, peerListening,
                   clientVars, histVars>>

\* client.recv returns no bytes (the client closed) or raises (reset): the
\* handler leaves its loop and closes the client socket.
HandlerRecvEnd(i) ==
    /\ hpc[i] = "recv"
    /\ \/ net[i].rst
       \/ net[i].c2s = <<>> /\ net[i].cend = "closed"
    /\ hpc' = [hpc EXCEPT ![i] = "done"]
    /\ net' = [net EXCEPT ![i].send = "closed"]
    /\ UNCHANGED <<running, socket, server_thread, lsock, apc, asock, buffer,
                   command, timers, executing, scene, blendermcp_server, peerListening,
                   clientVars, histVars>>

\* The main loop runs the first registered unit: execute_wrapper reads the
\* closure's command and calls execute_command.
MainPop ==
    /\ timers # <<>>
    /\ ~MainBusy
    /\ LET u == Head(timers)
       IN /\ executing' = executing \cup
                 {[thread |-> MainThread, h |-> u.h, cmd |-> command[u.h], decoded |-> u.decoded]}
          /\ dispatched' = [dispatched EXCEPT ![u.h] = Append(@, command[u.h])]
    /\ timers' = Tail(timers)
    /\ UNCHANGED <<running, socket, server_thread, lsock, apc, asock, hpc, buffer,
                   command, scene, blendermcp_server, net, peerListening, clientVars, raw, decoded,
                   results, dlog, life, glog, tool, trip>>

\* The envelope execute_wrapper writes: the dispatcher's, or the error
\* envelope of its except branch when json.dumps raises.
WrapperEnvelope(response) ==
    IF Serializable(response) THEN response ELSE Error(NotSerializableStr)

ClientOfLatest(e) ==
    IF \E j \in ConnIds : j > e.h /\ net[j].st = "accepted"
    THEN CHOOSE j \in ConnIds : j > e.h /\ net[j].st = "accepted"
    ELSE e.h

\* The socket execute_wrapper writes to: client, the parameter of the
\* _handle_client call that defined the wrapper.
ClientOf(e) == e.h

\* execute_command returns (the handler having returned or raised) and
\* execute_wrapper writes the envelope; a failing sendall is swallowed.
ExecFinish(e, out) ==
    /\ e \in executing
    /\ out \in HandlerOutcomes
    /\ ~CallsHandler(e.cmd, scene) => out = [raised |-> FALSE, value |-> [kind |-> "value"]]
    /\ LET env == WrapperEnvelope(execute_command(e.cmd, scene, out))
           ok == CanSend(ClientOf(e), "send")
       IN /\ net' = IF ok THEN SendS2C(ClientOf(e), Encode(env)) ELSE net
          /\ results' = Append(results,
                 [h |-> e.h, thread |-> e.thread, cmd |-> e.cmd, decoded |-> e.decoded,
                  called |-> CallsHandler(e.cmd, scene), out |-> out,
                  env |-> env, written |-> ok])
    /\ executing' = executing \ {e}
    /\ UNCHANGED <<running, socket, server_thread, lsock, apc, asock, hpc, buffer,
                   command, timers, scene, blendermcp_server, peerListening, clientVars, raw, decoded,
                   dispatched, dlog, life, glog, tool, trip>>

\* ------------------------------------------------------------- dispatcher alone
\* The feature flags of the scene, each a checkbox of the panel.
Flags == {"use_polyhaven", "use_hyper3d", "use_sketchfab"}

\* A checkbox is clicked: the flag changes between two commands.
ToggleFlag(f) ==
    /\ ~MainBusy
    /\ scene' = [scene EXCEPT ![f] = ~@]
    /\ UNCHANGED <<running, socket, server_thread, lsock, apc, asock, hpc, buffer,
                   command, timers, executing, blendermcp_server, net, peerListening,
                   clientVars, histVars>>

DispatchTypes == {"get_scene_info", "get_polyhaven_status", "search_polyhaven_assets",
                  "create_rodin_job", "search_sketchfab_models", "bogus_command"}

\* The main loop calls execute_command(cmd); dlog keeps the last two calls,
\* each with the flags it found.
Dispatch(cmd, out) ==
    /\ ~MainBusy
    /\ out \in HandlerOutcomes
    /\ ~CallsHandler(cmd, scene) => out = [raised |-> FALSE, value |-> [kind |-> "value"]]
    /\ LET r == [cmd |-> cmd, flags |-> scene, called |-> CallsHandler(cmd, scene),
                 out |-> out, env |-> execute_command(cmd, scene, out)]
       IN dlog' = IF Len(dlog) = 2 THEN <<dlog[2], r>> ELSE Append(dlog, r)
    /\ UNCHANGED <<serverVars, net, peerListening, clientVars, raw, decoded,
                   dispatched, results, life, glog, tool, trip>>

DispatchNext ==
    \/ \E f \in Flags : ToggleFlag(f)
    \/ \E t \in DispatchTypes, out \in HandlerOutcomes : Dispatch(Command(t), out)

\* The dispatcher under any sequence of commands and flag changes.
SpecDispatch == Init /\ [][DispatchNext]_vars

\* ------------------------------------------------------------- lifecycle
\* The state start() and stop() work on.
LifeState ==
    [running |-> running, socket |-> socket, server_thread |-> server_thread,
     open |-> OpenLSocks, created |-> Created,
     threads |-> {t \in LSockIds : apc[t] # "none"}]

\* Any caller calls start(); life records the call and the state before it.
CallStart(ok) ==
    /\ Len(life) < MaxOps
    /\ start(ok)
    /\ life' = Append(life, [op |-> "start", ok |-> ok, pre |-> LifeState])
    /\ UNCHANGED <<asock, hpc, buffer, command, timers, executing, scene, blendermcp_server, net,
                   peerListening, clientVars, raw, decoded, dispatched, results,
                   dlog, glog, tool, trip>>

\* Any caller calls stop().
CallStop ==
    /\ Len(life) < MaxOps
    /\ stop
    /\ life' = Append(life, [op |-> "stop", ok |-> TRUE, pre |-> LifeState])
    /\ UNCHANGED <<apc, asock, hpc, buffer, command, timers, executing, scene, blendermcp_server,
                   peerListening, clientVars, raw, decoded, dispatched, results,
                   dlog, glog, tool, trip>>

\* ------------------------------------------------------------- raw clients
\* Any program speaking the wire protocol (a test harness): it connects,
\* writes command frames, reads envelopes and closes as it likes.
RawCommands == {Command("get_scene_info"), Command("bogus_command"), JsonArray}

RawConnect ==
    /\ FreeConns # {}
    /\ \E s \in OpenLSocks :
         net' = [net EXCEPT ![NewConn] =
                    [FreshConn EXCEPT !.st = "pending", !.owner = "raw", !.lq = s,
                                      !.cend = "open"]]
    /\ UNCHANGED <<serverVars, peerListening, clientVars, histVars>>

RECURSIVE SentBy(_)
SentBy(S) ==
    IF S = {} THEN 0
    ELSE LET i == CHOOSE j \in S : TRUE
         IN Len(raw[i].sent) + SentBy(S \ {i})

\* The envelopes raw client i still waits for.
Unanswered(i) == Len(raw[i].sent) - raw[i].received

RawSend(i, cmd) ==
    /\ net[i].owner = "raw"
    /\ net[i].st \in {"pending", "accepted"}
    /\ CanSend(i, "cend")
    /\ SentBy(ConnIds) < MaxFrames
    /\ net' = SendC2S(i, Encode(cmd))
    /\ raw' = [raw EXCEPT ![i].sent = Append(@, [cmd |-> cmd, waited |-> Unanswered(i) = 0,
                            stopped |-> ~RunningOf(net[i].lq)])]
    /\ UNCHANGED <<serverVars, peerListening, clientVars, decoded, dispatched, results,
                   dlog, life, glog, tool, trip>>

RawRecv(i) ==
    /\ net[i].owner = "raw"
    /\ net[i].st = "accepted"
    /\ net[i].cend = "open"
    /\ Len(net[i].s2c) >= DocLen
    /\ net' = [net EXCEPT ![i].s2c = Drop(@, DocLen)]
    /\ raw' = [raw EXCEPT ![i].received = @ + 1]
    /\ UNCHANGED <<serverVars, peerListening, clientVars, decoded, dispatched, results,
                   dlog, life, glog, tool, trip>>

RawClose(i) ==
    /\ net[i].owner = "raw"
    /\ net[i].st \in {"pending", "accepted"}
    /\ net[i].cend = "open"
    /\ net' = [net EXCEPT ![i].cend = "closed"]
    /\ UNCHANGED <<serverVars, peerListening, clientVars, histVars>>

ServerNext ==
    \/ \E ok \in BOOLEAN : Start(ok)
    \/ Stop
    \/ \E t \in LSockIds : AcceptInit(t)
    \/ \E t \in LSockIds : AcceptLoop(t)
    \/ \E t \in LSockIds : AcceptReturn(t)
    \/ \E i \in ConnIds : HandlerLoop(i)
    \/ \E i \in ConnIds : \E n \in 1..Len(net[i].c2s) : HandlerRecvData(i, n)
    \/ \E i \in ConnIds : HandlerRecvEnd(i)
    \/ MainPop
    \/ \E e \in executing, out \in HandlerOutcomes : ExecFinish(e, out)

RawNext ==
    \/ RawConnect
    \/ \E i \in ConnIds, cmd \in RawCommands : RawSend(i, cmd)
    \/ \E i \in ConnIds : RawRecv(i)
    \/ \E i \in ConnIds : RawClose(i)

AcceptThread(t) == AcceptInit(t) \/ AcceptLoop(t) \/ AcceptReturn(t)

LifecycleNext ==
    \/ \E ok \in BOOLEAN : CallStart(ok)
    \/ CallStop
    \/ \E t \in LSockIds : AcceptInit(t)
    \/ \E t \in LSockIds : AcceptLoop(t)
    \/ \E t \in LSockIds : AcceptReturn(t)
    \/ \E i \in ConnIds : HandlerLoop(i)
    \/ \E i \in ConnIds : HandlerRecvEnd(i)
    \/ RawConnect
    \/ \E i \in ConnIds : RawClose(i)

\* One server object under any sequence of start() and stop() calls, with
\* clients that connect and close.
SpecLifecycle == Init /\ [][LifecycleNext]_vars

\* The same, each accept thread being scheduled.
SpecLifecycleFair ==
    SpecLifecycle /\ \A t \in LSockIds : WF_vars(AcceptThread(t))

\* The add-on's server with raw clients.
SpecServer == Init /\ [][ServerNext \/ RawNext]_vars

\* What a client writes at once: a frame, or a frame and the newline that
\* ends it.
PipelineChunks ==
    {Encode(Command("get_scene_info")),
     Encode(Command("get_scene_info")) \o <<WhitespaceByte>>}

\* A client writes a frame whether or not the one before was answered.
RawPipeline(i, bytes) ==
    /\ net[i].owner = "raw"
    /\ net[i].st \in {"pending", "accepted"}
    /\ CanSend(i, "cend")
    /\ Len(raw[i].sent) < MaxPipelined
    /\ net' = SendC2S(i, bytes)
    /\ raw' = [raw EXCEPT ![i].sent =
                 Append(@, [cmd |-> bytes[1].doc, waited |-> Unanswered(i) = 0,
                            stopped |-> ~RunningOf(net[i].lq), bytes |-> bytes])]
    /\ UNCHANGED <<serverVars, peerListening, clientVars, decoded, dispatched, results,
                   dlog, life, glog, tool, trip>>

\* The one client connects.
SoleConnect ==
    /\ \A i \in ConnIds : net[i].st = "unused"
    /\ RawConnect

PipelineNext ==
    \/ SoleConnect
    \/ \E i \in ConnIds, bytes \in PipelineChunks : RawPipeline(i, bytes)
    \/ \E i \in ConnIds : RawRecv(i)
    \/ \E i \in ConnIds : RawClose(i)

\* The add-on's server with one client, which writes frames of one command
\* one after the other, ending a frame with a newline or not.
SpecPipeline == Init /\ [][ServerNext \/ PipelineNext]_vars

\* A command whose params hold a string with a non-ASCII character.
WideCommand == [type |-> "get_object_info", params |-> [wide |-> TRUE]]

\* What a client that writes raw UTF-8 may write at once: a whole frame, a
\* byte of no document, a byte of no UTF-8 text.
FrameChunks ==
    {EncodeRaw(Command("get_scene_info")), EncodeRaw(WideCommand),
     <<GarbageByte>>, <<InvalidByte>>}

RawWrite(i, bytes) ==
    /\ net[i].owner = "raw"
    /\ net[i].st \in {"pending", "accepted"}
    /\ CanSend(i, "cend")
    /\ SentBy(ConnIds) < MaxFrames
    /\ net' = SendC2S(i, bytes)
    /\ raw' = [raw EXCEPT ![i].sent =
                 Append(@, [cmd |-> bytes[1].doc, waited |-> Unanswered(i) = 0,
                            stopped |-> ~RunningOf(net[i].lq), bytes |-> bytes])]
    /\ UNCHANGED <<serverVars, peerListening, clientVars, decoded, dispatched, results,
                   dlog, life, glog, tool, trip>>

FramingNext ==
    \/ RawConnect
    \/ \E i \in ConnIds, bytes \in FrameChunks : RawWrite(i, bytes)
    \/ \E i \in ConnIds : RawRecv(i)
    \/ \E i \in ConnIds : RawClose(i)

\* The add-on's server with clients that write raw UTF-8 bytes.
SpecFraming == Init /\ [][ServerNext \/ FramingNext]_vars

\* ------------------------------------------------------------- client
Listening == peerListening \/ OpenLSocks # {}

ClientCommands == {Command("get_scene_info"), Command("bogus_command")}

ReturnedEnvelope(v) == [kind |-> "return", value |-> Success(v)]

\* send_command returns response.get("result", {}).
Returned(v) == [kind |-> "return", value |-> v]

\* Whether the main loop is inside execute_command for a command that
\* arrived on connection i.
HostBusyFor(i) == \E e \in executing : e.thread = MainThread /\ e.h = i

\* A failure of send_command: the exception type raised, the branch of
\* send_command that raised it, its message, and (history) the condition
\* that caused it and whether the host was executing the call's command.
Raised(exc, branch, msg, cause) ==
    [kind |-> "raise", exc |-> exc, branch |-> branch, msg |-> msg, cause |-> cause,
     blocked |-> HostBusyFor(sock)]

ConnectFailedGeneric ==
    Raised("Exception", "generic",
           <<"Communication error with Blender: ", "AssertionError">>, "refused")

\* send_command line 97: connect() returned False.
ConnectFailed ==
    Raised("ConnectionError", "not_connected", <<"Not connected to Blender">>, "refused")

SockAfterKeep(branch) == sock

\* self.sock after each except branch of send_command.
SockAfter(branch) == IF branch = "invalid_json" THEN sock ELSE NoSock

AfterFailureRetry(branch) ==
    [cpc |-> "connect", sock |-> NoSock]

\* Where send_command goes after an except branch: it raises to the caller.
AfterFailure(branch) ==
    [cpc |-> "idle", sock |-> SockAfter(branch)]

\* An except branch of send_command: the failure it raises to the caller.
Fail(branch, msg, cause) ==
    /\ cpc' = AfterFailure(branch).cpc
    /\ sock' = AfterFailure(branch).sock
    /\ outcome' = Raised("Exception", branch, msg, cause)

\* except Exception (lines 133-136).
FailGeneric(detail, cause) ==
    Fail("generic", <<"Communication error with Blender: ">> \o detail, cause)

\* except (ConnectionError, BrokenPipeError, ConnectionResetError) (124-127).
FailLost(detail, cause) ==
    Fail("lost", <<"Connection to Blender lost: ">> \o detail, cause)

\* send_command is called.
ClientCall(cmd) ==
    /\ cpc = "idle"
    /\ calls.n < MaxCalls
    /\ ccmd' = cmd
    /\ chunks' = <<>>
    /\ calls' = [n |-> calls.n + 1, connects |-> 0, writes |-> 0,
                 reused |-> sock # NoSock, conn |-> NoSock, prev |-> outcome]
    /\ outcome' = NoOutcome
    /\ cpc' = IF sock # NoSock THEN "send" ELSE "connect"
    /\ UNCHANGED <<serverVars, net, peerListening, sock, singletonVars,
                   histVars>>

\* BlenderConnection.connect, from send_command with no live socket.
ClientConnect ==
    /\ cpc = "connect"
    /\ calls' = [calls EXCEPT !.connects = @ + 1]
    /\ IF Listening
       THEN /\ FreeConns # {}
            /\ sock' = NewConn
            /\ cpc' = "send"
            /\ IF peerListening
               THEN net' = [net EXCEPT ![NewConn] =
                       [FreshConn EXCEPT !.st = "peer", !.owner = "mcp",
                                         !.cend = "open", !.send = "open"]]
               ELSE \E s \in OpenLSocks :
                      net' = [net EXCEPT ![NewConn] =
                         [FreshConn EXCEPT !.st = "pending", !.owner = "mcp",
                                           !.lq = s, !.cend = "open"]]
            /\ UNCHANGED outcome
       ELSE /\ sock' = NoSock
            /\ cpc' = "idle"
            /\ outcome' = ConnectFailed
            /\ UNCHANGED net
    /\ UNCHANGED <<serverVars, peerListening, ccmd, chunks, singletonVars,
                   histVars>>

\* sendall of the encoded command (line 104).
ClientSend ==
    /\ cpc = "send"
    /\ IF CanSend(sock, "cend")
       THEN /\ net' = SendC2S(sock, Encode(ccmd))
            /\ calls' = [calls EXCEPT !.writes = @ + 1, !.conn = sock]
            /\ cpc' = "recv"
            /\ UNCHANGED <<sock, outcome>>
       ELSE /\ FailLost(<<"Broken pipe">>, "reset")
            /\ UNCHANGED <<net, calls>>
    /\ UNCHANGED <<serverVars, peerListening, ccmd, chunks, singletonVars,
                   histVars>>

\* Lines 111-119 of send_command on the bytes receive_full_response returned.
HandleResponse(data) ==
    LET response == Decode(data)
    IN IF ~IsObject(response)
       THEN FailGeneric(AttributeErrorStr, "nonobject")
       ELSE IF Get(response, "status", "unknown") = "error"
       THEN FailGeneric(Get(response, "message", <<"Unknown error from Blender">>),
                        "app_error")
       ELSE /\ outcome' = Returned(Get(response, "result", [empty |-> TRUE]))
            /\ cpc' = "idle"
            /\ UNCHANGED sock

AfterLoopIncomplete(cause) ==
    IF chunks # <<>> /\ CanDecode(chunks)
    THEN HandleResponse(chunks)
    ELSE FailGeneric(<<"Incomplete JSON response received">>, cause)

\* receive_full_response after its loop was left by break (lines 84-92).
AfterLoop(cause) ==
    IF chunks # <<>>
    THEN IF CanDecode(chunks)
         THEN HandleResponse(chunks)
         ELSE FailGeneric(<<"Incomplete JSON response received">>, cause)
    ELSE FailGeneric(<<"No data received">>, cause)

\* The bytes accumulated in chunks. No buffer longer than a document parses
\* however it goes on, so of a longer one only the first DocLen + 1 bytes are
\* kept.
Kept(data) == IF Len(data) > DocLen + 1 THEN Take(data, DocLen + 1) ELSE data

\* sock.recv returns n bytes (lines 57-71). The bytes accumulated before
\* were decoded at the read that delivered them, so b"".join(chunks) decodes
\* exactly if the new bytes do; a UnicodeDecodeError is caught by no handler
\* of receive_full_response but the re-raising one (78-80) and reaches the
\* except Exception of send_command.
ClientRecvData(n) ==
    /\ cpc = "recv"
    /\ ~net[sock].rst
    /\ n \in 1..Len(net[sock].s2c)
    /\ net' = [net EXCEPT ![sock].s2c = Drop(@, n)]
    /\ LET piece == Take(net[sock].s2c, n)
           data == Kept(chunks \o piece)
       IN /\ chunks' = data
          /\ IF ~Utf8Valid(piece)
             THEN FailGeneric(UnicodeErrorStr, "malformed")
             ELSE IF CanDecode(data)
             THEN HandleResponse(data)
             ELSE UNCHANGED <<cpc, sock, outcome>>
    /\ UNCHANGED <<serverVars, peerListening, ccmd, calls, singletonVars,
                   histVars>>

\* sock.recv returns no bytes: the peer closed (lines 58-61).
ClientRecvEof ==
    /\ cpc = "recv"
    /\ ~net[sock].rst
    /\ net[sock].s2c = <<>>
    /\ net[sock].send = "closed"
    /\ IF chunks = <<>>
       THEN FailGeneric(<<"Connection closed before receiving any data">>, "eof")
       ELSE AfterLoop("eof")
    /\ UNCHANGED <<serverVars, net, peerListening, ccmd, chunks, calls, singletonVars,
                   histVars>>

\* sock.recv raises socket.timeout: no bytes within DEFAULT_TIMEOUT (72-74).
ClientRecvTimeout ==
    /\ cpc = "recv"
    /\ ~net[sock].rst
    /\ net[sock].s2c = <<>>
    /\ net[sock].send # "closed"
    /\ AfterLoop("timeout")
    /\ UNCHANGED <<serverVars, net, peerListening, ccmd, chunks, calls, singletonVars,
                   histVars>>

\* sock.recv raises ConnectionResetError (75-77), re-raised to send_command.
ClientRecvReset ==
    /\ cpc = "recv"
    /\ net[sock].rst
    /\ FailLost(<<"Connection reset by peer">>, "reset")
    /\ UNCHANGED <<serverVars, net, peerListening, ccmd, chunks, calls, singletonVars,
                   histVars>>

\* A socket that send_command dropped without closing it is closed when the
\* interpreter collects it.
ClientGC(i) ==
    /\ net[i].owner = "mcp"
    /\ net[i].cend = "open"
    /\ i # sock
    /\ net' = [net EXCEPT ![i].cend = "closed"]
    /\ UNCHANGED <<serverVars, peerListening, clientVars, histVars>>

ClientNext ==
    \/ \E cmd \in ClientCommands : ClientCall(cmd)
    \/ ClientConnect
    \/ ClientSend
    \/ \E n \in 1..(DocLen * (MaxPeerWrites + MaxCalls)) : ClientRecvData(n)
    \/ ClientRecvEof
    \/ ClientRecvTimeout
    \/ ClientRecvReset
    \/ \E i \in ConnIds : ClientGC(i)

\* ------------------------------------------------------------- the singleton
DisconnectedLeak(i) == net

\* BlenderConnection.disconnect on a live socket: close().
Disconnected(i) == [net EXCEPT ![i].cend = "closed"]

\* The instance the next BlenderConnection(...) of get_blender_connection is.
NextInstance ==
    1 + Cardinality({k \in DOMAIN glog : glog[k].op = "get" /\ glog[k].inst # glog[k].had})

AfterProbeReuse(kind) == "idle"

\* get_blender_connection after its probe: it returns the instance (line 156)
\* or goes on to make a fresh one (lines 157-167).
AfterProbe(kind) == IF kind = "return" THEN "idle" ELSE "fresh"

\* get_blender_connection is entered: an existing instance is probed with
\* send_command("get_polyhaven_status"), otherwise a fresh one is made.
GetEnter ==
    /\ gpc = "idle" /\ cpc = "idle"
    /\ Cardinality({k \in DOMAIN glog : glog[k].op = "get"}) < MaxGets
    /\ gcall' = [had |-> gconn, probe |-> "none"]
    /\ IF gconn # NoInstance
       THEN /\ calls.n < MaxCalls
            /\ gpc' = "probe"
            /\ ccmd' = Command("get_polyhaven_status")
            /\ chunks' = <<>>
            /\ calls' = [n |-> calls.n + 1, connects |-> 0, writes |-> 0,
                         reused |-> sock # NoSock, conn |-> NoSock, prev |-> outcome]
            /\ outcome' = NoOutcome
            /\ cpc' = IF sock # NoSock THEN "send" ELSE "connect"
       ELSE /\ gpc' = "fresh"
            /\ UNCHANGED <<ccmd, chunks, calls, outcome, cpc>>
    /\ UNCHANGED <<serverVars, net, peerListening, sock, gconn, polyhaven_enabled,
                   histVars>>

\* server_lifespan starts: it calls get_blender_connection (line 23).
LifespanStartup ==
    /\ lpc = "init"
    /\ lpc' = "startup"
    /\ GetEnter

\* A tool calls get_blender_connection.
ToolGet ==
    /\ lpc = "serving"
    /\ UNCHANGED lpc
    /\ GetEnter

\* What server_lifespan does when its get_blender_connection call is over:
\* it yields, whether the call returned or raised.
LifespanAfterGet == IF lpc = "startup" THEN "serving" ELSE lpc

\* The probe's send_command is over.  A result is cached and the instance
\* returned; after a failure the instance is disconnected and discarded.
GetProbeDone ==
    /\ gpc = "probe" /\ cpc = "idle"
    /\ gpc' = AfterProbe(outcome.kind)
    /\ IF AfterProbe(outcome.kind) = "idle"
       THEN /\ polyhaven_enabled' =
                  IF outcome.kind = "return" THEN Get(outcome.value, "enabled", FALSE)
                  ELSE polyhaven_enabled
            /\ glog' = Append(glog,
                   [op |-> "get", had |-> gcall.had, probe |-> outcome.kind,
                    kind |-> "return", inst |-> gconn, sock |-> sock,
                    listening |-> Listening, after |-> gconn])
            /\ gcall' = NoCall
            /\ lpc' = LifespanAfterGet
            /\ UNCHANGED <<gconn, sock, net>>
       ELSE /\ gcall' = [gcall EXCEPT !.probe = outcome.kind]
            /\ net' = IF sock # NoSock THEN Disconnected(sock) ELSE net
            /\ sock' = NoSock
            /\ gconn' = NoInstance
            /\ UNCHANGED <<polyhaven_enabled, glog, lpc>>
    /\ UNCHANGED <<serverVars, peerListening, cpc, ccmd, chunks, outcome, calls,
                   raw, decoded, dispatched, results, dlog, life, tool, trip>>

InstalledNot(inst) == NoInstance

\* The module singleton once the fresh instance has connected (line 174).
Installed(inst) == inst

\* A fresh BlenderConnection is made and connected (lines 165-175): it
\* becomes the singleton, or the call raises when connect() fails.
GetFresh ==
    /\ gpc = "fresh"
    /\ gpc' = "idle"
    /\ gcall' = NoCall
    /\ lpc' = LifespanAfterGet
    /\ IF Listening
       THEN /\ FreeConns # {}
            /\ sock' = NewConn
            /\ gconn' = Installed(NextInstance)
            /\ IF peerListening
               THEN net' = [net EXCEPT ![NewConn] =
                       [FreshConn EXCEPT !.st = "peer", !.owner = "mcp",
                                         !.cend = "open", !.send = "open"]]
               ELSE \E s \in OpenLSocks :
                      net' = [net EXCEPT ![NewConn] =
                         [FreshConn EXCEPT !.st = "pending", !.owner = "mcp",
                                           !.lq = s, !.cend = "open"]]
            /\ glog' = Append(glog,
                   [op |-> "get", had |-> gcall.had, probe |-> gcall.probe,
                    kind |-> "return", inst |-> NextInstance, sock |-> NewConn,
                    listening |-> TRUE, after |-> NextInstance])
       ELSE /\ sock' = NoSock
            /\ UNCHANGED <<gconn, net>>
            /\ glog' = Append(glog,
                   [op |-> "get", had |-> gcall.had, probe |-> gcall.probe,
                    kind |-> "raise", inst |-> NoInstance, sock |-> NoSock,
                    listening |-> FALSE, after |-> gconn])
    /\ UNCHANGED <<serverVars, peerListening, cpc, ccmd, chunks, outcome, calls,
                   polyhaven_enabled, raw, decoded, dispatched, results, dlog, life, tool, trip>>

ToolCommands == {Command("get_scene_info")}

\* A tool calls send_command on the instance get_blender_connection returned.
ToolCall(cmd) ==
    /\ lpc = "serving" /\ gpc = "idle"
    /\ gconn # NoInstance
    /\ ClientCall(cmd)

\* server_lifespan ends: its finally block calls shutdown_connection, which
\* disconnects and clears the singleton if there is one.
LifespanEnd ==
    /\ lpc = "serving" /\ gpc = "idle" /\ cpc = "idle"
    /\ lpc' = "ended"
    /\ IF gconn = NoInstance
       THEN UNCHANGED <<gconn, sock, net>>
       ELSE /\ net' = IF sock # NoSock THEN Disconnected(sock) ELSE net
            /\ sock' = NoSock
            /\ gconn' = NoInstance
    /\ glog' = Append(glog,
           [op |-> "shutdown", had |-> gconn, probe |-> "none", kind |-> "return",
            inst |-> gconn, sock |-> sock, listening |-> Listening,
            after |-> NoInstance])
    /\ UNCHANGED <<serverVars, peerListening, gpc, gcall, polyhaven_enabled, cpc,
                   ccmd, chunks, outcome, calls, raw, decoded, dispatched, results,
                   dlog, life, tool, trip>>

\* ------------------------------------------------------------- another peer
\* Whatever listens on the port instead of the add-on: it may answer with any
\* bytes, close or reset.
PeerEnvelopes ==
    {Success([kind |-> "value"]),
     Error(<<"Unknown command type: ", "bogus_command">>),
     JsonArray}

PeerChunks ==
    {Encode(e) : e \in PeerEnvelopes}
      \cup {<<GarbageByte>>, <<Encode(Success([kind |-> "value"]))[1]>>}

PeerListen ==
    /\ peerListening' = ~peerListening
    /\ UNCHANGED <<serverVars, net, clientVars, histVars>>

PeerWrite(i, bytes) ==
    /\ net[i].st = "peer"
    /\ CanSend(i, "send")
    /\ net[i].pw < MaxPeerWrites
    /\ net' = [SendS2C(i, bytes) EXCEPT ![i].pw = @ + 1]
    /\ UNCHANGED <<serverVars, peerListening, clientVars, histVars>>

PeerClose(i) ==
    /\ net[i].st = "peer"
    /\ net[i].send = "open"
    /\ net' = [net EXCEPT ![i].send = "closed"]
    /\ UNCHANGED <<serverVars, peerListening, clientVars, histVars>>

PeerReset(i) ==
    /\ net[i].st = "peer"
    /\ ~net[i].rst
    /\ net' = [net EXCEPT ![i].rst = TRUE, ![i].s2c = <<>>]
    /\ UNCHANGED <<serverVars, peerListening, clientVars, histVars>>

PeerNext ==
    \/ PeerListen
    \/ \E i \in ConnIds, bytes \in PeerChunks : PeerWrite(i, bytes)
    \/ \E i \in ConnIds : PeerClose(i)
    \/ \E i \in ConnIds : PeerReset(i)

\* The connection of the MCP process against any peer.
SpecClient == Init /\ [][ClientNext \/ PeerNext]_vars

\* A peer that writes one byte, never part of a document, whenever the client
\* has read the one before: each byte arrives within the timeout of the read
\* that waits for it.
PeerDribble(i, byte) ==
    /\ net[i].st = "peer"
    /\ CanSend(i, "send")
    /\ net[i].s2c = <<>>
    /\ net' = SendS2C(i, <<byte>>)
    /\ UNCHANGED <<serverVars, peerListening, clientVars, histVars>>

StreamNext ==
    \/ PeerListen
    \/ \E i \in ConnIds, byte \in {GarbageByte, InvalidByte} : PeerDribble(i, byte)
    \/ \E i \in ConnIds : PeerClose(i)
    \/ \E i \in ConnIds : PeerReset(i)

\* The steps of the thread that runs send_command.
ClientStep ==
    \/ ClientConnect
    \/ ClientSend
    \/ \E n \in 1..(DocLen * (MaxPeerWrites + MaxCalls)) : ClientRecvData(n)
    \/ ClientRecvEof
    \/ ClientRecvTimeout
    \/ ClientRecvReset

\* The connection of the MCP process against a peer that dribbles bytes.
SpecStream == Init /\ [][ClientNext \/ StreamNext]_vars

\* The thread in send_command is scheduled as long as it can take a step.
SpecStreamFair == SpecStream /\ WF_vars(ClientStep)

SingletonNext ==
    \/ LifespanStartup
    \/ ToolGet
    \/ GetProbeDone
    \/ GetFresh
    \/ \E cmd \in ToolCommands : ToolCall(cmd)
    \/ LifespanEnd
    \/ ClientConnect
    \/ ClientSend
    \/ \E n \in 1..(DocLen * (MaxPeerWrites + MaxCalls)) : ClientRecvData(n)
    \/ ClientRecvEof
    \/ ClientRecvTimeout
    \/ ClientRecvReset
    \/ \E i \in ConnIds : ClientGC(i)

\* The MCP process from the start to the end of its lifespan, its tools
\* going through get_blender_connection, against the add-on's server.
SpecSingleton == Init /\ [][SingletonNext \/ ServerNext]_vars

\* The calls of get_blender_connection alone, each with its probe: the
\* instance a probe is sent on holds the socket the call before left it.
GetNext ==
    \/ LifespanStartup
    \/ ToolGet
    \/ GetProbeDone
    \/ GetFresh
    \/ LifespanEnd
    \/ ClientSend
    \/ \E n \in 1..(DocLen * (MaxPeerWrites + MaxCalls)) : ClientRecvData(n)
    \/ ClientRecvEof
    \/ ClientRecvTimeout
    \/ ClientRecvReset
    \/ \E i \in ConnIds : ClientGC(i)

\* The MCP process calling get_blender_connection against the add-on's
\* server while the PolyHaven checkbox of the panel may be clicked.
SpecPolyhaven ==
    Init /\ [][GetNext \/ ServerNext \/ ToggleFlag("use_polyhaven")]_vars

\* The MCP process against the add-on's server.
Spec == Init /\ [][ClientNext \/ ServerNext]_vars

\* ------------------------------------------------------------- the codec alone
\* The commands the tools send.
CodecCommands ==
    {Command(t) : t \in BaseTypes \cup PolyhavenTypes \cup Hyper3dTypes
                           \cup SketchfabTypes}
      \cup {[type |-> "create_rodin_job", params |-> ImageParams]}

\* The envelopes the server writes.
CodecEnvelopes ==
    {Success([kind |-> "value"]),
     Success(get_polyhaven_status([use_polyhaven |-> TRUE])),
     Success(get_polyhaven_status([use_polyhaven |-> FALSE])),
     Error(<<"Unknown command type: ", "bogus_command">>),
     Error(ExcStr("boom")),
     Error(NotSerializableStr)}

\* json.loads(json.dumps(v).encode("utf-8").decode("utf-8")).
RoundTrip(v) == [orig |-> v, back |-> Decode(Encode(v))]

\* A command goes from send_command (line 104) to _handle_client (line 119).
RoundTripCommand(c) ==
    /\ trip' = [trip EXCEPT !.command = RoundTrip(c)]
    /\ UNCHANGED <<serverVars, net, peerListening, clientVars, raw, decoded,
                   dispatched, results, dlog, life, glog, tool>>

\* An envelope goes from execute_wrapper (line 127) to send_command (111).
RoundTripEnvelope(e) ==
    /\ trip' = [trip EXCEPT !.envelope = RoundTrip(e)]
    /\ UNCHANGED <<serverVars, net, peerListening, clientVars, raw, decoded,
                   dispatched, results, dlog, life, glog, tool>>

CodecNext ==
    \/ \E c \in CodecCommands : RoundTripCommand(c)
    \/ \E e \in CodecEnvelopes : RoundTripEnvelope(e)

\* Commands and envelopes put through the codec one at a time.
SpecCodec == Init /\ [][CodecNext]_vars

\* ------------------------------------------------------------- the tools
\* How get_blender_connection and send_command end for a tool.
ConnOutcomes == {"success", "connect_failure", "transport_failure", "app_error"}

\* str(exc) of the exception they raise.
ConnExc(conn) ==
    CASE conn = "connect_failure" ->
           <<"Could not connect to Blender. Make sure the Blender addon is running.">>
      [] conn = "transport_failure" ->
           <<"Connection to Blender lost: ", "Connection reset by peer">>
      [] conn = "app_error" ->
           <<"Communication error with Blender: ", "boom">>

Ret(v) == [kind |-> "return", value |-> v]
Raise(type, msg) == [kind |-> "raise", exc |-> type, msg |-> msg]

\* tools/scene.py get_scene_info.
get_scene_info(conn) ==
    IF conn = "success"
    THEN Ret(<<"json">>)
    ELSE Ret(<<"Error getting scene info: ">> \o ConnExc(conn))

\* tools/scene.py get_viewport_screenshot; file tells whether Blender wrote
\* the screenshot file.
get_viewport_screenshot(conn, file) ==
    IF conn # "success"
    THEN Raise("Exception", <<"Screenshot failed: ">> \o ConnExc(conn))
    ELSE IF file = "missing"
    THEN Raise("Exception", <<"Screenshot failed: ", "Screenshot file was not created">>)
    ELSE Ret(<<"image">>)

\* tools/runtime.py process_bbox raises ValueError for a float that is not
\* positive.
BboxValues == {"none", "ints", "floats", "nonpositive"}
BboxRaises(bbox) == bbox = "nonpositive"

\* The arguments of generate_hyper3d_model_via_images: paths are None, files
\* that can be read, paths that do not exist or files open() refuses.
PathValues == {"none", "readable", "missing", "unreadable"}
UrlValues == {"none", "given"}

\* tools/hyper3d.py generate_hyper3d_model_via_images.
generate_hyper3d_model_via_images(paths, urls, bbox, conn) ==
    IF paths # "none" /\ urls # "none"
    THEN Ret(<<"Error: Conflict parameters given!">>)
    ELSE IF paths = "none" /\ urls = "none"
    THEN Ret(<<"Error: No image given!">>)
    ELSE IF paths = "missing"
    THEN Ret(<<"Error: not all image paths are valid!">>)
    ELSE IF paths = "unreadable"
    THEN Raise("PermissionError", <<"[Errno 13] Permission denied">>)
    ELSE IF paths = "none"
    THEN Raise("TypeError", <<"'NoneType' object is not iterable">>)
    ELSE IF conn = "connect_failure"
    THEN Ret(<<"Error generating Hyper3D task: ">> \o ConnExc(conn))
    ELSE IF BboxRaises(bbox)
    THEN Ret(<<"Error generating Hyper3D task: ",
               "Incorrect number range: bbox must be bigger than zero!">>)
    ELSE IF conn # "success"
    THEN Ret(<<"Error generating Hyper3D task: ">> \o ConnExc(conn))
    ELSE Ret(<<"json">>)

CallGetSceneInfo(conn) ==
    /\ tool' = [name |-> "get_scene_info", args |-> <<>>, conn |-> conn,
                result |-> get_scene_info(conn)]
    /\ UNCHANGED <<serverVars, net, peerListening, clientVars, raw, decoded,
                   dispatched, results, dlog, life, glog, trip>>

CallGetViewportScreenshot(conn, file) ==
    /\ tool' = [name |-> "get_viewport_screenshot", args |-> <<file>>,
                conn |-> conn, result |-> get_viewport_screenshot(conn, file)]
    /\ UNCHANGED <<serverVars, net, peerListening, clientVars, raw, decoded,
                   dispatched, results, dlog, life, glog, trip>>

CallGenerateViaImages(paths, urls, bbox, conn) ==
    /\ tool' = [name |-> "generate_hyper3d_model_via_images",
                args |-> <<paths, urls, bbox>>, conn |-> conn,
                result |-> generate_hyper3d_model_via_images(paths, urls, bbox, conn)]
    /\ UNCHANGED <<serverVars, net, peerListening, clientVars, raw, decoded,
                   dispatched, results, dlog, life, glog, trip>>

ToolsNext ==
    \/ \E conn \in ConnOutcomes : CallGetSceneInfo(conn)
    \/ \E conn \in ConnOutcomes, file \in {"created", "missing"} :
          CallGetViewportScreenshot(conn, file)
    \/ \E paths \in PathValues, urls \in UrlValues, bbox \in BboxValues,
          conn \in ConnOutcomes :
          CallGenerateViaImages(paths, urls, bbox, conn)

\* The tools called one after another with any arguments, whatever the
\* connection does.
SpecTools == Init /\ [][ToolsNext]_vars


\* ------------------------------------------------------------- properties
CallEnded == cpc = "idle" /\ outcome.kind # "none"
CallFailed == CallEnded /\ outcome.kind = "raise"
AppError == CallFailed /\ outcome.cause = "app_error"
PrevFailedBy(causes) ==
    cpc # "idle" /\ calls.prev.kind = "raise" /\ calls.prev.cause \in causes

\* C1: after send_command consumed an error envelope it raises, the socket
\* reference is still the socket the command was written on, and the next
\* call reuses it without calling connect().
C1_AppErrorKeepsConnection ==
    /\ AppError => sock # NoSock /\ sock = calls.conn
    /\ PrevFailedBy({"app_error"}) => calls.reused /\ calls.connects = 0

\* C2: the failure raised for the error envelope answering bogus_command
\* carries exactly the envelope's message.
C2_ErrorMessageExact ==
    (AppError /\ ccmd.type = "bogus_command")
        => outcome.msg = <<"Unknown command type: ", "bogus_command">>

UnitsOf(i) ==
    Cardinality({k \in DOMAIN timers : timers[k].h = i})
      + Cardinality({e \in executing : e.h = i})
      + Cardinality({k \in DOMAIN results : results[k].h = i})

\* C3: every decoded frame has exactly one deferred unit, and a unit that
\* runs dispatches the command that was decoded when it was scheduled.
C3_UnitDispatchesItsCommand ==
    /\ \A i \in ConnIds : UnitsOf(i) = Len(decoded[i])
    /\ \A e \in executing : e.cmd = e.decoded
    /\ \A k \in DOMAIN results : results[k].cmd = results[k].decoded

IsPrefix(a, b) == Len(a) <= Len(b) /\ \A k \in 1..Len(a) : a[k] = b[k]

\* C4: on each connection the commands are dispatched in the order in which
\* their frames were decoded.
C4_DispatchInDecodeOrder ==
    \A i \in ConnIds : IsPrefix(dispatched[i], decoded[i])

\* C5: execute_command only ever runs on the main thread, and at most one
\* call of it is in progress at any time.
C5_DispatchOnMainLoopOnly ==
    /\ \A e \in executing : e.thread = MainThread
    /\ Cardinality(executing) <= 1
    /\ \A k \in DOMAIN results : results[k].thread = MainThread

\* Two clients are connected, the command of one is executing and a unit of
\* the other waits.
C5_Witness ==
    \E e \in executing : \E k \in DOMAIN timers :
        /\ timers[k].h # e.h
        /\ net[e.h].st = "accepted" /\ net[timers[k].h].st = "accepted"

\* C6: when the handler raises, the unit's envelope is the error envelope
\* with str(exception), it is what is written to the client, and the step
\* leaves the accept loop, the handler threads and the timer queue as they
\* were, the main loop being free for the next unit.
C6_HandlerErrorEnvelope ==
    [][(/\ Len(results') = Len(results) + 1
        /\ results'[Len(results')].called
        /\ results'[Len(results')].out.raised)
       => LET r == results'[Len(results')]
              env == Error(ExcStr(r.out.value))
          IN /\ r.env = env
             /\ (CanSend(r.h, "send") /\ net[r.h].cend = "open")
                  => r.written /\ net'[r.h].s2c = net[r.h].s2c \o Encode(env)
             /\ running' = running /\ socket' = socket /\ lsock' = lsock
             /\ apc' = apc /\ hpc' = hpc /\ timers' = timers /\ buffer' = buffer
             /\ executing' = {}]_vars

\* A handler raised, its error envelope was written and read by the client,
\* and the command the client sent next on the same connection was
\* dispatched and answered with success.
C6_Witness ==
    \E j, k \in DOMAIN results :
        /\ j < k
        /\ results[j].called /\ results[j].out.raised /\ results[j].written
        /\ results[k].h = results[j].h
        /\ Len(raw[results[k].h].sent) = 2 /\ raw[results[k].h].sent[2].waited
        /\ results[k].env.status = "success" /\ results[k].written

TransportCauses == {"timeout", "reset", "eof"}

\* C7: after a failure by timeout, reset, broken pipe, close or a response
\* that is no JSON the socket reference is absent, and the next call
\* connects afresh before it writes.
C7_TransportFailureDropsSocket ==
    /\ (CallFailed /\ outcome.cause \in TransportCauses) => sock = NoSock
    /\ PrevFailedBy(TransportCauses)
         => /\ ~calls.reused
            /\ calls.writes > 0 => calls.connects = 1 /\ calls.conn # NoSock

\* The previous call timed out on bytes that are no JSON document, and this
\* call has connected afresh and written its command.
C7_Witness ==
    /\ PrevFailedBy({"timeout"})
    /\ calls.prev.msg = <<"Communication error with Blender: ",
                          "Incomplete JSON response received">>
    /\ calls.connects = 1 /\ calls.writes = 1

\* C8: when the handler of the command occupies the main loop and the read
\* times out with no bytes received, send_command raises its timeout failure
\* and drops the socket.
C8_TimeoutFailure ==
    (CallFailed /\ outcome.cause = "timeout" /\ chunks = <<>> /\ outcome.blocked)
        => outcome.branch = "timeout" /\ sock = NoSock

\* C9: one send_command call connects at most once and writes its command
\* at most once, and a failure ends the call.
C9_NoRetry ==
    /\ calls.connects <= 1
    /\ calls.writes <= 1
    /\ outcome.kind = "raise" => cpc = "idle"

\* A call failed after it had connected and written its command.
C9_Witness ==
    CallFailed /\ calls.connects = 1 /\ calls.writes = 1

\* C10: a call with no live socket whose connect() fails raises
\* ConnectionError, has written nothing and leaves the socket absent.
C10_ConnectFailure ==
    /\ (CallFailed /\ outcome.cause = "refused")
         => /\ outcome.exc = "ConnectionError"
            /\ outcome.msg = <<"Not connected to Blender">>
            /\ calls.writes = 0 /\ calls.conn = NoSock
            /\ sock = NoSock
    /\ (cpc = "send" /\ ~calls.reused) => sock # NoSock

\* The second call found no listener after the first call's socket was
\* dropped.
C10_Witness ==
    /\ CallFailed /\ outcome.cause = "refused" /\ calls.n = 2
    /\ calls.prev.kind = "raise" /\ calls.prev.cause \in TransportCauses

UnknownEnvelope(t) == Error(<<"Unknown command type: ", t>>)

\* C11: a command whose type is not in the handler table built for its
\* dispatch is answered with the error envelope "Unknown command type: <type>"
\* and no handler is called.
C11_UnknownCommand ==
    \A k \in DOMAIN dlog :
        dlog[k].cmd.type \notin Handlers(dlog[k].flags)
            => dlog[k].env = UnknownEnvelope(dlog[k].cmd.type) /\ ~dlog[k].called

\* A type no table has and a gated type whose flag was off were dispatched.
C11_Witness ==
    /\ Len(dlog) = 2
    /\ dlog[1].cmd.type = "bogus_command"
    /\ dlog[2].cmd.type = "create_rodin_job" /\ ~dlog[2].flags.use_hyper3d

\* The result of the last envelope the server wrote on connection i.
LastWritten(i) ==
    LET K == {k \in DOMAIN results : results[k].h = i /\ results[k].written}
    IN results[CHOOSE k \in K : \A j \in K : j <= k]

\* C12: a call that returns has returned the result of the success envelope
\* the server wrote, the socket is still the one the command was written on,
\* and the next call reuses it without connecting.
C12_SuccessReturnsResult ==
    /\ (CallEnded /\ outcome.kind = "return")
         => /\ LastWritten(calls.conn).env.status = "success"
            /\ outcome.value = LastWritten(calls.conn).env.result
            /\ sock = calls.conn /\ sock # NoSock
    /\ (cpc # "idle" /\ calls.prev.kind = "return")
         => calls.reused /\ calls.connects = 0

\* The second call returned on the socket of the first, which had returned.
C12_Witness ==
    /\ CallEnded /\ outcome.kind = "return" /\ calls.n = 2
    /\ calls.prev.kind = "return" /\ calls.reused /\ calls.writes = 1

\* The types accepted under the given flags.
Accepted(flags) ==
    BaseTypes
      \cup {t \in PolyhavenTypes : flags.use_polyhaven}
      \cup {t \in Hyper3dTypes : flags.use_hyper3d}
      \cup {t \in SketchfabTypes : flags.use_sketchfab}

HandlerReturns == [raised |-> FALSE, value |-> [kind |-> "value"]]

\* C13: a dispatch answers "Unknown command type" exactly for the types that
\* are neither base types nor in a gated set whose flag is true at that
\* dispatch, and under every combination of flags every base type is accepted.
C13_FlagsReadAtDispatch ==
    /\ \A k \in DOMAIN dlog :
         (dlog[k].env = UnknownEnvelope(dlog[k].cmd.type))
             <=> dlog[k].cmd.type \notin Accepted(dlog[k].flags)
    /\ \A t \in BaseTypes \cup PolyhavenTypes \cup Hyper3dTypes \cup SketchfabTypes :
         (execute_command(Command(t), scene, HandlerReturns).status = "success")
             <=> t \in Accepted(scene)
    /\ \A t \in BaseTypes :
         execute_command(Command(t), scene, HandlerReturns).status = "success"

\* The same gated command was dispatched twice in a row, accepted while its
\* flag was on and unknown after the flag was turned off.
C13_Witness ==
    /\ Len(dlog) = 2
    /\ dlog[1].cmd = dlog[2].cmd /\ dlog[1].cmd.type = "search_polyhaven_assets"
    /\ dlog[1].flags.use_polyhaven /\ dlog[1].env.status = "success"
    /\ ~dlog[2].flags.use_polyhaven /\ dlog[2].env = UnknownEnvelope("search_polyhaven_assets")

\* The state after the k-th call: nothing but start() and stop() changes it.
After(k) == IF k = Len(life) THEN LifeState ELSE life[k + 1].pre

\* C14: start() on a running server changes neither the running flag, the
\* socket and thread references, nor the sockets and threads that exist.
C14_StartWhileRunningNoop ==
    \A k \in DOMAIN life :
        (life[k].op = "start" /\ life[k].pre.running) => After(k) = life[k].pre

\* start() was called on a running server, with a socket that could be bound.
C14_Witness ==
    \E k \in DOMAIN life :
        /\ life[k].op = "start" /\ life[k].pre.running /\ life[k].ok
        /\ life[k].pre.socket # NoSock /\ After(k).running

\* C15: after every stop() the running flag is false, the listening socket
\* is closed, the socket and thread references are absent, and a stop() that
\* follows a stop() changes nothing.
C15_StopIdempotent ==
    \A k \in DOMAIN life :
        life[k].op = "stop"
            => /\ ~After(k).running
               /\ After(k).socket = NoSock
               /\ After(k).server_thread = NoSock
               /\ After(k).open = {}
               /\ After(k).created = life[k].pre.created
               /\ (k > 1 /\ life[k - 1].op = "stop") => After(k) = life[k].pre

\* stop() was called on a running server and then twice more.
C15_Witness ==
    /\ Len(life) = 3
    /\ life[1].op = "start" /\ life[1].ok
    /\ life[2].op = "stop" /\ life[2].pre.running /\ life[2].pre.open # {}
    /\ life[3].op = "stop"

\* The accept threads that have not exited.
Alive == {t \in LSockIds : apc[t] \notin {"none", "done"}}

\* C16: stop() can complete in every state, whatever the accept thread and
\* the handlers are doing; once the server is stopped no listening socket is
\* open, an accept thread blocked in accept() leaves it, and it exits unless
\* the server is started again.
C16_StopReturns ==
    /\ [](Len(life) < MaxOps => ENABLED CallStop)
    /\ [](~running => OpenLSocks = {})
    /\ \A t \in LSockIds : (apc[t] = "accept") ~> (apc[t] # "accept")
    /\ \A t \in LSockIds : (~running /\ t \in Alive) ~> (running \/ t \notin Alive)

\* stop() has returned while the accept thread was blocked in accept() and a
\* handler in recv.
C16_Witness ==
    /\ life # <<>> /\ life[Len(life)].op = "stop" /\ life[Len(life)].pre.running
    /\ server_thread = NoSock
    /\ \E t \in LSockIds : apc[t] = "accept" /\ lsock[asock[t]] = "closed"
    /\ \E i \in ConnIds : hpc[i] = "recv" /\ net[i].cend = "open"

\* C17: a start() whose socket cannot be set up leaves the server stopped
\* (running false, the socket closed, both references absent, no accept
\* thread started), and a start() that follows can succeed.
C17_StartFailureConsistent ==
    \A k \in DOMAIN life :
        (life[k].op = "start" /\ ~life[k].pre.running /\ ~life[k].ok)
            => /\ ~After(k).running
               /\ After(k).socket = NoSock
               /\ After(k).server_thread = NoSock
               /\ After(k).open = {}
               /\ After(k).threads = life[k].pre.threads
               /\ (k < Len(life) /\ life[k + 1].op = "start" /\ life[k + 1].ok)
                    => /\ After(k + 1).running
                       /\ After(k + 1).socket \in After(k + 1).open
                       /\ After(k + 1).server_thread \in After(k + 1).threads

\* A start() failed and the start() after it succeeded.
C17_Witness ==
    \E k \in DOMAIN life :
        /\ life[k].op = "start" /\ ~life[k].pre.running /\ ~life[k].ok
        /\ k < Len(life) /\ life[k + 1].op = "start" /\ life[k + 1].ok
        /\ running /\ socket # NoSock

\* C18: a handler that has terminated has closed its client socket, and the
\* step in which a handler ends on an empty read or a socket error changes
\* nothing of the server, the accept threads, the other handlers and their
\* connections, or the timer queue.
C18_HandlerEndIsolated ==
    /\ [](\A i \in ConnIds : hpc[i] = "done" => net[i].send = "closed")
    /\ [][\A i \in ConnIds :
            (hpc[i] = "recv" /\ hpc'[i] = "done")
                => /\ net'[i].send = "closed"
                   /\ running' = running /\ socket' = socket /\ lsock' = lsock
                   /\ server_thread' = server_thread
                   /\ apc' = apc /\ asock' = asock
                   /\ timers' = timers /\ executing' = executing
                   /\ \A j \in ConnIds \ {i} :
                        /\ hpc'[j] = hpc[j] /\ buffer'[j] = buffer[j]
                        /\ net'[j] = net[j]]_vars

\* One client closed and its handler ended; the server still runs, its
\* accept thread waits on the open listening socket, and the handler of
\* another client, whose command was answered, is reading.
C18_Witness ==
    \E i, j \in ConnIds :
        /\ i # j
        /\ hpc[i] = "done" /\ net[i].cend = "closed" /\ ~net[i].rst
        /\ running
        /\ \E t \in LSockIds : apc[t] = "accept" /\ lsock[asock[t]] = "open"
        /\ hpc[j] = "recv" /\ net[j].cend = "open"
        /\ \E k \in DOMAIN results : results[k].h = j /\ results[k].written

\* C19: the process holds one instance at most; a call that finds an instance
\* probes it before returning it, returns that same instance when the probe
\* returns, and after a failed probe discards it, its socket reference gone,
\* and returns a fresh connected instance that becomes the singleton, raising
\* only when the fresh connect() fails.
C19_SingletonRevalidated ==
    /\ gconn = NoInstance => sock = NoSock
    /\ (gpc = "fresh" /\ gcall.had # NoInstance)
         => gcall.probe = "raise" /\ gconn = NoInstance /\ sock = NoSock
    /\ \A k \in DOMAIN glog :
         (glog[k].op = "get" /\ glog[k].had # NoInstance)
             => /\ glog[k].probe \in {"return", "raise"}
                /\ glog[k].probe = "return"
                     => /\ glog[k].kind = "return"
                        /\ glog[k].inst = glog[k].had
                        /\ glog[k].after = glog[k].had
                /\ glog[k].probe = "raise"
                     => IF glog[k].listening
                        THEN /\ glog[k].kind = "return"
                             /\ glog[k].inst \notin {NoInstance, glog[k].had}
                             /\ glog[k].sock # NoSock
                             /\ glog[k].after = glog[k].inst
                        ELSE /\ glog[k].kind = "raise"
                             /\ glog[k].after = NoInstance

\* A call found an instance whose probe failed and returned a fresh
\* connected one.
C19_Witness ==
    \E k \in DOMAIN glog :
        /\ glog[k].op = "get" /\ glog[k].had # NoInstance
        /\ glog[k].probe = "raise" /\ glog[k].kind = "return"
        /\ glog[k].inst # glog[k].had /\ glog[k].sock # NoSock
        /\ gconn = glog[k].inst /\ sock = glog[k].sock

\* C20: shutdown_connection closes the socket of the singleton and clears
\* the singleton, changes nothing when there is none, and has been called
\* whenever the lifespan has ended, whether or not the startup's
\* get_blender_connection returned.
C20_ShutdownClears ==
    /\ \A k \in DOMAIN glog :
         glog[k].op = "shutdown"
             => /\ glog[k].after = NoInstance
                /\ glog[k].sock # NoSock => net[glog[k].sock].cend = "closed"
                /\ glog[k].had = NoInstance => glog[k].sock = NoSock
    /\ lpc = "ended"
         => /\ glog[Len(glog)].op = "shutdown"
            /\ glog[1].op = "get"
            /\ gconn = NoInstance /\ sock = NoSock
    /\ lpc \in {"init", "startup", "serving"}
         => \A k \in DOMAIN glog : glog[k].op # "shutdown"

\* The startup could not connect, a later call made the singleton, and the
\* end of the lifespan closed its socket.
C20_Witness ==
    /\ lpc = "ended" /\ Len(glog) = 3
    /\ glog[1].kind = "raise"
    /\ glog[2].kind = "return" /\ glog[2].sock # NoSock
    /\ glog[3].op = "shutdown" /\ glog[3].had = glog[2].inst /\ glog[3].sock = glog[2].sock

\* C21: every call of send_command ends: whatever the peer does, dribbling
\* bytes that never complete a document included, the call returns or
\* raises.
C21_SendCommandEnds == (cpc # "idle") ~> (cpc = "idle")

\* The first words of the errors the tools format.
ToolPrefixes ==
    {"Error getting scene info: ", "Screenshot failed: ",
     "Error generating Hyper3D task: "}

\* C22: whatever the arguments and however get_blender_connection and
\* send_command end, a tool returns a result or an error it formatted; no
\* exception that the tool did not format leaves it.
C22_NoRawException ==
    tool # NoCall
        => \/ tool.result.kind = "return"
           \/ tool.result.msg[1] \in ToolPrefixes

\* C23: decoding the encoded bytes of a command or of an envelope gives a
\* value equal to the original.
C23_RoundTrip ==
    \A f \in {"command", "envelope"} :
        trip[f] # NoCall => trip[f].back = trip[f].orig

\* Connection i carries one whole command frame and nothing else, over an
\* intact connection to a server that was started once and not stopped.
SingleFrame(i) ==
    /\ running /\ Cardinality(Created) = 1
    /\ net[i].st = "accepted" /\ ~net[i].rst /\ net[i].cend = "open"
    /\ Len(raw[i].sent) = 1
    /\ Len(raw[i].sent[1].bytes) = DocLen

\* C24: a single command frame, however the reads split it, is dispatched
\* once, after the read that completes it: while the buffer holds a proper
\* prefix nothing is scheduled and nothing answered, the handler goes on
\* reading, and when the last byte is read the command is scheduled and the
\* buffer empty.
C24_SplitFrameDispatchedOnce ==
    \A i \in ConnIds :
        SingleFrame(i)
            => /\ hpc[i] # "done"
               /\ buffer[i] \o net[i].c2s \in {<<>>, raw[i].sent[1].bytes}
               /\ decoded[i] = IF buffer[i] \o net[i].c2s = <<>>
                               THEN <<raw[i].sent[1].cmd>> ELSE <<>>
               /\ Len(decoded[i]) = 0
                    => net[i].s2c = <<>> /\ \A k \in DOMAIN results : results[k].h # i

\* The bytes handler i reads in a step.
ReadBy(i) == Take(net[i].c2s, Len(net[i].c2s) - Len(net'[i].c2s))

\* C25: whenever the accumulated buffer does not decode as one JSON
\* document, truncated or malformed, the handler keeps the buffer, writes
\* nothing, leaves the connection open and goes on to the next read.
C25_DecodeFailureKeepsReading ==
    [][\A i \in ConnIds :
         (/\ hpc[i] = "recv" /\ hpc'[i] # "recv"
          /\ Len(net'[i].c2s) < Len(net[i].c2s)
          /\ ~(Utf8Valid(buffer[i] \o ReadBy(i)) /\ CanDecode(buffer[i] \o ReadBy(i))))
            => /\ hpc'[i] = "loop"
               /\ buffer'[i] = buffer[i] \o ReadBy(i)
               /\ net'[i].send = net[i].send
               /\ net'[i].s2c = net[i].s2c]_vars

\* send_command is over and raised because its receive loop ended by c.
EndedBy(c) == cpc = "idle" /\ outcome.kind = "raise" /\ outcome.cause = c

\* The failure receive_full_response raised, as send_command passes it on.
LoopFailure(detail) ==
    outcome.msg = <<"Communication error with Blender: ", detail>>

\* The receive loop returned its bytes to send_command.
LoopReturned ==
    \/ outcome.kind = "return"
    \/ outcome.kind = "raise" /\ outcome.cause \in {"nonobject", "app_error"}

C27_EnvelopeToOwnConnection ==
    /\ [](\A i \in ConnIds : net[i].st = "accepted" => hpc[i] # "none")
    /\ [][Len(results') = Len(results) + 1
            => LET r == results'[Len(results')]
               IN /\ \A j \in ConnIds \ {r.h} : net'[j] = net[j]
                  /\ net'[r.h] = IF r.written
                                 THEN SendS2C(r.h, Encode(r.env))[r.h]
                                 ELSE net[r.h]
                  /\ \E k \in DOMAIN decoded[r.h] : decoded[r.h][k] = r.cmd]_vars

\* Two clients are connected, each has its handler, and each has been
\* answered on its own connection.
C27_Witness ==
    /\ \A i \in {1, 2} :
          /\ net[i].st = "accepted" /\ net[i].cend = "open" /\ net[i].send = "open"
          /\ hpc[i] \in {"loop", "recv"}
          /\ \E k \in DOMAIN results : results[k].h = i /\ results[k].written
    /\ raw[1].received = 1 /\ raw[2].received = 1

\* C28: a stop() call closes no accepted client socket and ends no handler:
\* every handler is where it was, and every accepted connection as it was,
\* when stop() returns.
C28_StopLeavesHandlers ==
    [][(Len(life') = Len(life) + 1 /\ life'[Len(life')].op = "stop")
         => /\ hpc' = hpc
            /\ \A i \in ConnIds : net[i].st = "accepted" => net'[i] = net[i]]_vars

\* stop() has returned on a running server while the handlers of two
\* clients were blocked in recv: both are still there, their sockets open.
C28_Witness ==
    /\ life # <<>> /\ life[Len(life)].op = "stop" /\ life[Len(life)].pre.running
    /\ ~running
    /\ \A i \in {1, 2} :
          /\ hpc[i] = "recv" /\ net[i].st = "accepted"
          /\ net[i].send = "open" /\ net[i].cend = "open" /\ ~net[i].rst

\* C29: once the server is stopped and not started again, every accept
\* thread leaves its loop, at the loop test or after accept() returned by
\* its timeout or on the closed socket; a thread that left its loop stays
\* out of it, and a connection is accepted only while the server runs.
C29_AcceptLoopExits ==
    /\ \A t \in LSockIds : (~running /\ apc[t] \in {"init", "loop", "accept"})
                                ~> (running \/ apc[t] = "done")
    /\ [][\A t \in LSockIds : apc[t] = "done" => apc'[t] = "done"]_vars
    /\ [][(\E i \in ConnIds : net[i].st = "pending" /\ net'[i].st = "accepted")
            => running /\ OpenLSocks # {}]_vars

\* The server was stopped while its accept thread was alive and a client
\* waited to be accepted: the thread has exited and the client was never
\* accepted.
C29_Witness ==
    /\ life # <<>> /\ life[Len(life)].op = "stop" /\ life[Len(life)].pre.running
    /\ life[Len(life)].pre.threads # {}
    /\ \A t \in LSockIds : apc[t] \in {"none", "done"}
    /\ \E i \in ConnIds : net[i].st = "pending" /\ hpc[i] = "none"

\* The accept threads blocked in accept() on an open listening socket.
Accepting == {t \in LSockIds : apc[t] = "accept" /\ lsock[asock[t]] = "open"}

\* C30: whatever start() and stop() calls were made, at most one accept
\* thread is accepting on the listening socket.
C30_OneAcceptThread == Cardinality(Accepting) <= 1

\* The frames client i wrote before the server was stopped.
SentBeforeStop(i) == {k \in DOMAIN raw[i].sent : ~raw[i].sent[k].stopped}

\* C31: no command is dispatched for a frame that a client wrote after
\* stop() returned: on every connection the commands dispatched are at most
\* the frames written while the server ran.
C31_NoDispatchAfterStop ==
    \A i \in ConnIds : Len(dispatched[i]) <= Cardinality(SentBeforeStop(i))

\* The finished units of connection i.
ResultsOf(i) == {k \in DOMAIN results : results[k].h = i}

\* C32: every deferred unit that was scheduled runs and dispatches its
\* command, whatever became of the client and of the server meanwhile: once
\* the main loop has serviced its queue, each connection has one finished
\* unit for each command decoded on it, each of these commands was
\* dispatched, and a unit whose envelope could not be written finished all
\* the same.
C32_ScheduledUnitsRun ==
    (timers = <<>> /\ executing = {})
        => \A i \in ConnIds :
             /\ Cardinality(ResultsOf(i)) = Len(decoded[i])
             /\ \A k \in DOMAIN decoded[i] :
                  \E j \in ResultsOf(i) : results[j].cmd = decoded[i][k]

\* Nothing of an earlier command is under way on connection c: no bytes in
\* either direction, no partial frame, no unit waiting or running.
Quiet(c) ==
    /\ net[c].c2s = <<>> /\ net[c].s2c = <<>> /\ buffer[c] = <<>>
    /\ \A k \in DOMAIN timers : timers[k].h # c
    /\ \A e \in executing : e.h # c

\* The last unit of connection c that finished.
LastResultOf(c) == CHOOSE k \in ResultsOf(c) : \A j \in ResultsOf(c) : j <= k

\* C33: the envelope send_command consumes is the host's response to the
\* command written in that call: a call writes its command on a connection
\* on which nothing of an earlier command is under way, and when it returns
\* a result or raises an application failure the bytes it consumed are the
\* envelope of the last unit that ran on its connection, that unit ran the
\* call's command, and no other unit of the connection is outstanding.
C33_AnswerIsOwn ==
    /\ (cpc = "send" /\ sock # NoSock) => Quiet(sock)
    /\ (cpc = "idle" /\ LoopReturned)
         => /\ ResultsOf(calls.conn) # {}
            /\ results[LastResultOf(calls.conn)].cmd = ccmd
            /\ results[LastResultOf(calls.conn)].written
            /\ Decode(chunks) = JsonOf(results[LastResultOf(calls.conn)].env)
            /\ Cardinality(ResultsOf(calls.conn)) = Len(decoded[calls.conn])
            /\ Quiet(calls.conn)

\* A call timed out while the host was busy with its command; the next call
\* connected afresh and returned the answer to its own command, the late
\* answer to the first having gone to the first connection.
C33_Witness ==
    /\ calls.n = 2 /\ cpc = "idle" /\ outcome.kind = "return"
    /\ calls.prev.kind = "raise" /\ calls.prev.cause = "timeout" /\ calls.prev.blocked
    /\ Len(results) = 2
    /\ results[1].h # calls.conn /\ results[2].h = calls.conn


\* C34: when get_blender_connection returns, the module singleton is the
\* instance it returned and that instance holds a socket that is open; when
\* it raises, there is no singleton.
C34_GetLeavesSingleton ==
    [][(Len(glog') = Len(glog) + 1 /\ glog'[Len(glog')].op = "get")
         => IF glog'[Len(glog')].kind = "return"
            THEN /\ gconn' # NoInstance
                 /\ gconn' = glog'[Len(glog')].inst
                 /\ sock' # NoSock
                 /\ net'[sock'].owner = "mcp"
                 /\ net'[sock'].cend = "open"
            ELSE /\ gconn' = NoInstance
                 /\ sock' = NoSock]_vars

\* One call reused the instance after tools had used it, a later one found
\* its probe failing and raised.
C34_Witness ==
    /\ gpc = "idle"
    /\ \E j, k \in DOMAIN glog :
         /\ j < k
         /\ glog[j].op = "get" /\ glog[j].kind = "return"
         /\ glog[j].had # NoInstance /\ glog[j].probe = "return"
         /\ glog[k].op = "get" /\ glog[k].kind = "raise"
         /\ glog[k].had # NoInstance
    /\ gconn = NoInstance

\* C35: when get_blender_connection returns, the cached flag that
\* is_polyhaven_enabled reads is the host's PolyHaven flag as a
\* get_polyhaven_status probe of that call reported it, for a reused and for
\* a fresh instance.  Where the call made no probe that returned, the formula
\* asks no more than that the cached flag be the host's flag at the return.
C35_CachedFlagIsProbed ==
    [][(Len(glog') = Len(glog) + 1 /\ glog'[Len(glog')].op = "get"
          /\ glog'[Len(glog')].kind = "return")
         => IF glog'[Len(glog')].probe = "return"
            THEN polyhaven_enabled' = outcome.value.enabled
            ELSE polyhaven_enabled' = scene'.use_polyhaven]_vars

\* C36: when the Start operator has run, scene.blendermcp_server_running is
\* true exactly if the instance is running, its running flag set and its
\* listening socket bound, also when binding the port failed; when the Stop
\* operator has run, the flag is false and bpy.types holds no instance.
C36_FlagTracksServer ==
    [][/\ (\E ok \in BOOLEAN : Start(ok))
            => (scene'.blendermcp_server_running
                  <=> /\ blendermcp_server'.present
                      /\ running'
                      /\ socket' # NoSock
                      /\ lsock'[socket'] = "open")
       /\ Stop
            => /\ ~scene'.blendermcp_server_running
               /\ ~blendermcp_server'.present]_vars

\* buf starts with the bytes of a whole frame and goes on after them.
PastFrame(buf) == Len(buf) > DocLen /\ Take(buf, DocLen) = Encode(buf[1].doc)

\* The same, some byte after the frame being other than JSON whitespace.
PastFrameText(buf) ==
    /\ PastFrame(buf)
    /\ \E k \in (DocLen + 1)..Len(buf) : buf[k] # WhitespaceByte

\* C37 as stated: when a read leaves in the buffer bytes past the end of a
\* whole frame, whatever these bytes are, no command of that buffer is
\* scheduled or dispatched and nothing is answered for it; from then on the
\* buffer is never emptied and no later frame is decoded or dispatched.
C37_OverrunAsStated ==
    [][\A i \in ConnIds :
         /\ (/\ hpc[i] = "recv" /\ hpc'[i] # "recv"
              /\ Len(net'[i].c2s) < Len(net[i].c2s)
              /\ PastFrame(buffer[i] \o ReadBy(i)))
               => /\ buffer'[i] = buffer[i] \o ReadBy(i)
                  /\ decoded'[i] = decoded[i]
                  /\ UnitsOf(i)' = UnitsOf(i)
         /\ PastFrame(buffer[i])
               => /\ PastFrame(buffer'[i])
                  /\ Take(buffer'[i], Len(buffer[i])) = buffer[i]
                  /\ decoded'[i] = decoded[i]
                  /\ UnitsOf(i)' = UnitsOf(i)
                  /\ Len(dispatched'[i]) <= Len(decoded[i])]_vars

\* C37: when a read leaves in the buffer bytes past the end of a whole
\* frame that are not all JSON whitespace, no command of that buffer is
\* scheduled or dispatched and nothing is answered for it; from then on the
\* buffer is never emptied, it only grows, and no frame that arrives later
\* on the connection is decoded or dispatched.
C37_OverrunIsFinal ==
    [][\A i \in ConnIds :
         /\ (/\ hpc[i] = "recv" /\ hpc'[i] # "recv"
              /\ Len(net'[i].c2s) < Len(net[i].c2s)
              /\ PastFrameText(buffer[i] \o ReadBy(i)))
               => /\ buffer'[i] = buffer[i] \o ReadBy(i)
                  /\ decoded'[i] = decoded[i]
                  /\ UnitsOf(i)' = UnitsOf(i)
         /\ PastFrameText(buffer[i])
               => /\ PastFrameText(buffer'[i])
                  /\ Take(buffer'[i], Len(buffer[i])) = buffer[i]
                  /\ decoded'[i] = decoded[i]
                  /\ UnitsOf(i)' = UnitsOf(i)
                  /\ Len(dispatched'[i]) <= Len(decoded[i])]_vars

\* Three frames were written without waiting for an answer and the handler
\* has read them all, the read that brought the end of the first bringing
\* bytes of the second: they stay in its buffer, nothing was decoded on the
\* connection, the main loop has nothing to run and nothing was answered.
C37_Witness ==
    \E i \in ConnIds :
      /\ Len(raw[i].sent) = 3
      /\ \A k \in 1..3 : raw[i].sent[k].bytes = Encode(Command("get_scene_info"))
      /\ buffer[i] = raw[i].sent[1].bytes \o raw[i].sent[2].bytes \o raw[i].sent[3].bytes
      /\ hpc[i] = "recv"
      /\ decoded[i] = <<>> /\ dispatched[i] = <<>>
      /\ UnitsOf(i) = 0
      /\ net[i].s2c = <<>>

=========================================================================
